---- MODULE Spec2Model ----
(***************************************************************************)
(* Receipt enrichment pipeline of parser.py: field access, GSTIN/HSN       *)
(* extraction, currency resolution, confidence aggregation, categorisation *)
(* and the approval status, driven by the /analyze route of app.py.        *)
(*                                                                         *)
(* Encodings.  A Python str is a sequence of one-character strings.  An    *)
(* optional value is None (the empty tuple) or Some(x) (a one-tuple).      *)
(* A confidence in the record is a number of hundredths of a percent       *)
(* (98.5 is 9850); a weight is a number of hundredths (0.40 is 40); the    *)
(* OCR service's confidence in [0,1] is a number of 1/100000.              *)
(***************************************************************************)
EXTENDS Integers, Sequences, FiniteSets, TLC

VARIABLES APP_CONFIG, RULE_BASED_OVERRIDES, VALID_CATEGORIES, GEMINI_MODEL,
          pc, receipts, parsed_data, calls, fn_args, fn_ret

vars == <<APP_CONFIG, RULE_BASED_OVERRIDES, VALID_CATEGORIES, GEMINI_MODEL,
          pc, receipts, parsed_data, calls, fn_args, fn_ret>>

config_vars == <<APP_CONFIG, RULE_BASED_OVERRIDES, VALID_CATEGORIES, GEMINI_MODEL>>

----------------------------------------------------------------------------
(* Optional values and characters *)

None == <<>>

Some(x) == <<x>>

Min(S) == CHOOSE x \in S : \A y \in S : x <= y

RECURSIVE SumOver(_, _)
\* the sum of f[i] over the i in S
SumOver(S, f) ==
  IF S = {} THEN 0 ELSE LET i == CHOOSE x \in S : TRUE IN f[i] + SumOver(S \ {i}, f)

UpperLetters ==
  <<"A", "B", "C", "D", "E", "F", "G", "H", "I", "J", "K", "L", "M",
    "N", "O", "P", "Q", "R", "S", "T", "U", "V", "W", "X", "Y", "Z">>

LowerLetters ==
  <<"a", "b", "c", "d", "e", "f", "g", "h", "i", "j", "k", "l", "m",
    "n", "o", "p", "q", "r", "s", "t", "u", "v", "w", "x", "y", "z">>

Digits == {"0", "1", "2", "3", "4", "5", "6", "7", "8", "9"}

UpperSet == {UpperLetters[i] : i \in 1..26}

LowerSet == {LowerLetters[i] : i \in 1..26}

IsDigit(c) == c \in Digits

IsUpperAlnum(c) == c \in UpperSet \cup Digits

IsAlnum(c) == c \in UpperSet \cup LowerSet \cup Digits

IsWordChar(c) == IsAlnum(c) \/ c = "_"

\* str.upper() on one character
UpperChar(c) ==
  IF c \in LowerSet
  THEN UpperLetters[CHOOSE i \in 1..26 : LowerLetters[i] = c]
  ELSE c

\* str.upper()
Upper(s) == [i \in 1..Len(s) |-> UpperChar(s[i])]

\* s[i] (1-based), or "" beyond either end
CharAt(s, i) == IF i \in 1..Len(s) THEN s[i] ELSE ""

\* needle in haystack
Contains(haystack, needle) ==
  \E i \in 1..(Len(haystack) - Len(needle) + 1) :
    SubSeq(haystack, i, i + Len(needle) - 1) = needle

\* does s, upper-cased, read lit at position i
ReadsAt(s, i, lit) ==
  /\ i >= 1
  /\ i + Len(lit) - 1 <= Len(s)
  /\ Upper(SubSeq(s, i, i + Len(lit) - 1)) = lit

----------------------------------------------------------------------------
(* sanitize_gstin *)

\* chars[13] = 'Z' if chars[13] == '2'; position 14 here: sequences start at 1
CorrectZ(clean) == [i \in 1..Len(clean) |-> IF i = 14 /\ clean[i] = "2" THEN "Z" ELSE clean[i]]

\* the length check and the correction
Checked(clean) == IF Len(clean) # 15 THEN None ELSE Some(CorrectZ(clean))

sanitize_gstin_wrong_index(candidate) ==
  IF candidate = None \/ candidate[1] = <<>>
  THEN None
  ELSE LET clean == SelectSeq(Upper(candidate[1]), IsUpperAlnum)
       IN  IF Len(clean) # 15
           THEN None
           ELSE Some([i \in 1..15 |-> IF i = 13 /\ clean[i] = "2" THEN "Z" ELSE clean[i]])

sanitize_gstin_no_length_check(candidate) ==
  IF candidate = None \/ candidate[1] = <<>>
  THEN None
  ELSE LET clean == SelectSeq(Upper(candidate[1]), IsUpperAlnum)
       IN  IF Len(clean) < 15 THEN None ELSE Some(CorrectZ(clean))

sanitize_gstin(candidate) ==
  IF candidate = None \/ candidate[1] = <<>>
  THEN None
  ELSE Checked(SelectSeq(Upper(candidate[1]), IsUpperAlnum))

----------------------------------------------------------------------------
(* extract_custom_fields: the three regular expressions *)

\* [:\.\-\s]
IsSep(c) == c \in {":", ".", "-", " "}

\* the position after the longest run of separators that starts at k
SkipSeps(s, k) ==
  CHOOSE j \in k..(Len(s) + 1) :
    /\ \A t \in k..(j - 1) : IsSep(s[t])
    /\ (j = Len(s) + 1 \/ ~IsSep(s[j]))

\* No\.? at j: the position after it, 0 if it is not there
NoEnd(s, j) ==
  IF ReadsAt(s, j, <<"N", "O">>)
  THEN (IF CharAt(s, j + 2) = "." THEN j + 3 ELSE j + 2)
  ELSE 0

\* (?i)(?:GSTIN|GST\s?No\.?) at position i: the position after the label, 0 if none
LabelEnd(s, i) ==
  IF ReadsAt(s, i, <<"G", "S", "T", "I", "N">>)
  THEN i + 5
  ELSE IF ReadsAt(s, i, <<"G", "S", "T">>)
       THEN NoEnd(s, IF CharAt(s, i + 3) = " " THEN i + 4 ELSE i + 3)
       ELSE 0

\* ([A-Z0-9]{15}) under (?i) at k: k if 15 alphanumerics start there, else 0
FifteenAt(s, k) ==
  IF k + 14 <= Len(s) /\ \A t \in k..(k + 14) : IsAlnum(s[t]) THEN k ELSE 0

\* [:\.\-\s]*([A-Z0-9]{15}) after a label that ends before e (0: no label)
AfterLabel(s, e) == IF e = 0 THEN 0 ELSE FifteenAt(s, SkipSeps(s, e))

\* label_pattern matched at i: the position of group 1, 0 if no match at i
LabelMatchAt(s, i) == AfterLabel(s, LabelEnd(s, i))

\* \b between positions i-1 and i
WordBoundary(s, i) == IsWordChar(CharAt(s, i - 1)) # IsWordChar(CharAt(s, i))

\* structure_pattern \b(\d{2}[A-Z]{5}\d{4}[A-Z]{1}[A-Z0-9]{2})\b matched at i:
\* the group is 2 + 5 + 4 + 1 + 2 = 14 characters long
StructureMatchAt(s, i) ==
  /\ i + 13 <= Len(s)
  /\ WordBoundary(s, i)
  /\ \A t \in i..(i + 1) : IsDigit(s[t])
  /\ \A t \in (i + 2)..(i + 6) : s[t] \in UpperSet
  /\ \A t \in (i + 7)..(i + 10) : IsDigit(s[t])
  /\ s[i + 11] \in UpperSet
  /\ \A t \in (i + 12)..(i + 13) : IsUpperAlnum(s[t])
  /\ WordBoundary(s, i + 14)

\* the number of digits, at most 8, that start at k
DigitRun(s, k) ==
  CHOOSE n \in 0..8 :
    /\ \A t \in k..(k + n - 1) : IsDigit(CharAt(s, t))
    /\ (n = 8 \/ ~IsDigit(CharAt(s, k + n)))

\* <<position, length>> of group 1 when at least 4 digits start at k
DigitsAt(k, n) == IF n >= 4 THEN <<k, n>> ELSE <<0, 0>>

\* the first of two matches that is one
OrElse(m1, m2) == IF m1[1] # 0 THEN m1 ELSE m2

\* [:\.\-\s]*(\d{4,8}) from position e
HsnDigits(s, e) == DigitsAt(SkipSeps(s, e), DigitRun(s, SkipSeps(s, e)))

\* (?:[:\.\-\s]*CODE)?[:\.\-\s]*(\d{4,8}) with the optional group taken, the
\* separators of the group ending at k
HsnAfterCode(s, k) ==
  IF ReadsAt(s, k, <<"C", "O", "D", "E">>) THEN HsnDigits(s, k + 4) ELSE <<0, 0>>

\* hsn_pattern (?i)HSN(?:[:\.\-\s]*CODE)?[:\.\-\s]*(\d{4,8}) matched at i:
\* <<position of group 1, its length>>, <<0, 0>> if no match at i
HsnMatchAt(s, i) ==
  IF ~ReadsAt(s, i, <<"H", "S", "N">>)
  THEN <<0, 0>>
  ELSE OrElse(HsnAfterCode(s, SkipSeps(s, i + 3)), HsnDigits(s, i + 3))

\* the entry of the leftmost position whose entry is not 0; 0 if there is none
Leftmost(m) ==
  IF \A i \in DOMAIN m : m[i] = 0
  THEN 0
  ELSE m[Min({i \in DOMAIN m : m[i] # 0})]

\* s[k .. k+n-1] when k is a position, None when k is 0
GroupAt(s, k, n) == IF k = 0 THEN None ELSE Some(SubSeq(s, k, k + n - 1))

\* re.search(label_pattern, all_text): group 1 of the leftmost match
SearchLabel(all_text) ==
  GroupAt(all_text,
          Leftmost([i \in 1..Len(all_text) |-> LabelMatchAt(all_text, i)]), 15)

\* re.search(structure_pattern, all_text)
SearchStructure(all_text) ==
  GroupAt(all_text,
          Leftmost([i \in 1..Len(all_text) |->
                      IF StructureMatchAt(all_text, i) THEN i ELSE 0]), 14)

\* the group of an HSN match <<position, length>>
HsnGroup(s, m) == GroupAt(s, m[1], m[2])

\* the leftmost HSN match among the matches at each position
LeftmostHsn(m) ==
  IF \A i \in DOMAIN m : m[i][1] = 0
  THEN <<0, 0>>
  ELSE m[Min({i \in DOMAIN m : m[i][1] # 0})]

\* re.search(hsn_pattern, all_text)
SearchHsn(all_text) ==
  HsnGroup(all_text, LeftmostHsn([i \in 1..Len(all_text) |-> HsnMatchAt(all_text, i)]))

\* sanitize_gstin(match.group(1)) if match
SanitizedMatch(match) == IF match # None THEN sanitize_gstin(match) ELSE None

\* the labelled GSTIN, and `if not gstin:` the structural one
FirstGstin(labelled, structural) == IF labelled # None THEN labelled ELSE structural

\* <<gstin, hsn>>
extract_custom_fields(all_text) ==
  <<FirstGstin(SanitizedMatch(SearchLabel(all_text)),
               SanitizedMatch(SearchStructure(all_text))),
    SearchHsn(all_text)>>

----------------------------------------------------------------------------
(* Configuration defaults (parser.py, module level) *)

Uncategorized ==
  <<"U", "n", "c", "a", "t", "e", "g", "o", "r", "i", "z", "e", "d">>

FoodCost == <<"F", "o", "o", "d", " ", "C", "o", "s", "t">>

Utilities == <<"U", "t", "i", "l", "i", "t", "i", "e", "s">>

Maintenance == <<"M", "a", "i", "n", "t", "e", "n", "a", "n", "c", "e">>

\* the default of load_json_file('config.json', ...)
DefaultAppConfig ==
  [confidence_threshold |-> 90,
   confidence_weights |-> << <<"total", 40>>, <<"merchant_name", 25>>,
                             <<"gstin", 20>>, <<"transaction_date", 15>> >>]

\* the default of load_json_file('category_rules.json', {})
DefaultRules == <<>>

\* the default of load_json_file('valid_categories.json', [...])
DefaultValidCategories == <<FoodCost, Utilities, Maintenance, Uncategorized>>

\* dict.get(key, default)
Get(d, key, default) == IF key \in DOMAIN d THEN d[key] ELSE default

\* x in list
InList(x, list) == \E i \in 1..Len(list) : list[i] = x

----------------------------------------------------------------------------
(* get_field_value *)

\* round(x) of Python 3 for the quotient num/den, den > 0, num >= 0: half to even
RoundHalfEven(num, den) ==
  LET q == num \div den
      r == num % den
  IN  IF 2 * r < den THEN q
      ELSE IF 2 * r > den THEN q + 1
      ELSE IF q % 2 = 0 THEN q ELSE q + 1

get_field_value_absent_full(doc, field_name, value_type) ==
  LET field == Get(doc, field_name, None)
  IN  IF field # None
      THEN LET f == field[1]
               value == IF value_type = "amount" /\ f.value # None
                        THEN Some(f.value[1].amount)
                        ELSE f.value
               confidence == IF f.confidence # None
                             THEN RoundHalfEven(f.confidence[1], 10)
                             ELSE 100 * 100
           IN  <<value, Some(confidence)>>
      ELSE <<None, Some(100 * 100)>>

\* doc: field name -> None | Some([value, content, confidence]); the result is
\* the pair <<value, confidence>>.  round(field.confidence * 100, 2) takes the
\* confidence from 1/100000 to hundredths of a percent.
get_field_value(doc, field_name, value_type) ==
  LET field == Get(doc, field_name, None)
  IN  IF field # None
      THEN LET f == field[1]
               value == IF value_type = "amount" /\ f.value # None
                        THEN Some(f.value[1].amount)
                        ELSE f.value
               confidence == IF f.confidence # None
                             THEN RoundHalfEven(f.confidence[1], 10)
                             ELSE 100 * 100
           IN  <<value, Some(confidence)>>
      ELSE <<None, Some(0)>>

----------------------------------------------------------------------------
(* determine_currency *)

CURRENCY_MAP ==
  << << <<"I", "N", "R">>, "rupee" >>,
     << <<"U", "S", "D">>, "dollar" >>,
     << <<"E", "U", "R">>, "euro" >>,
     << <<"G", "B", "P">>, "pound" >>,
     << <<"C", "A", "D">>, "dollar" >>,
     << <<"A", "U", "D">>, "dollar" >>,
     << <<"A", "E", "D">>, "dirham" >> >>

COUNTRY_MAP ==
  << << <<"I", "N", "D">>, "rupee" >>,
     << <<"U", "S", "A">>, "dollar" >>,
     << <<"G", "B", "R">>, "pound" >>,
     << <<"A", "R", "E">>, "dirham" >> >>

\* key in table
InMap(table, key) == \E i \in 1..Len(table) : table[i][1] = key

\* table[key]
Lookup(table, key) == table[CHOOSE i \in 1..Len(table) : table[i][1] = key][2]

\* the whitespace str.strip() removes, as far as the inputs use it
Whitespace == {" ", "\t", "\n", "\r"}

\* str.strip(): leading and trailing whitespace removed
Strip(s) ==
  LET keep == {i \in 1..Len(s) : s[i] \notin Whitespace}
  IN  IF keep = {}
      THEN <<>>
      ELSE SubSeq(s, Min(keep), CHOOSE j \in keep : \A i \in keep : i <= j)

\* the first code of CURRENCY_MAP, in its order, found in the upper-cased content
CodeInContent(content) ==
  LET hits == {i \in 1..Len(CURRENCY_MAP) : Contains(Upper(content), CURRENCY_MAP[i][1])}
  IN  IF hits = {} THEN None ELSE Some(CURRENCY_MAP[Min(hits)][2])

\* steps 2 to 5 of the hierarchy: CountryRegion, GSTIN, address, default
CurrencyAfterTotal(doc, gstin) ==
  LET country_field == Get(doc, "CountryRegion", None)
      country_val   == IF country_field # None /\ country_field[1].value \notin {None, Some(<<>>)}
                       THEN Some(Strip(Upper(country_field[1].value[1])))
                       ELSE None
      address_field == Get(doc, "MerchantAddress", None)
  IN  IF country_val # None /\ InMap(COUNTRY_MAP, country_val[1])
      THEN Lookup(COUNTRY_MAP, country_val[1])
      ELSE IF /\ gstin \notin {None, Some(<<>>)}
              /\ Len(gstin[1]) = 15
              /\ \A t \in 1..2 : IsDigit(gstin[1][t])
           THEN "rupee"
           ELSE IF /\ address_field # None
                   /\ address_field[1].value \notin {None, Some(<<>>)}
                   /\ \/ Contains(Upper(address_field[1].value[1]), <<"I", "N", "D", "I", "A">>)
                      \/ Contains(Upper(address_field[1].value[1]), <<"I", "N", "D">>)
                THEN "rupee"
                ELSE "dollar"

determine_currency_address_first(doc, gstin) ==
  LET address_field == Get(doc, "MerchantAddress", None)
  IN  IF /\ address_field # None
         /\ address_field[1].value \notin {None, Some(<<>>)}
         /\ Contains(Upper(address_field[1].value[1]), <<"U", "S", "A">>)
      THEN "dollar"
      ELSE CurrencyAfterTotal(doc, gstin)

\* Total.value is None or a CurrencyValue [amount, code]; code and content are
\* optional strings
determine_currency(doc, gstin) ==
  LET total_field == Get(doc, "Total", None)
  IN  IF total_field # None /\ total_field[1].value # None
      THEN LET code    == total_field[1].value[1].code
               content == IF total_field[1].content = None
                          THEN <<>>
                          ELSE total_field[1].content[1]
           IN  IF code \notin {None, Some(<<>>)} /\ InMap(CURRENCY_MAP, Upper(code[1]))
               THEN Lookup(CURRENCY_MAP, Upper(code[1]))
               ELSE IF CodeInContent(content) # None
                    THEN CodeInContent(content)[1]
                    ELSE CurrencyAfterTotal(doc, gstin)
      ELSE CurrencyAfterTotal(doc, gstin)

----------------------------------------------------------------------------
(* categorize_receipt *)

\* the value of a <<value, confidence>> pair `or ""`
ValueOrEmpty(pair) == IF pair[1] = None THEN <<>> ELSE pair[1][1]

\* does some keyword of the list, upper-cased, occur in merchant_name
KeywordHit(keywords, merchant_name) ==
  \E k \in 1..Len(keywords) : Contains(merchant_name, Upper(keywords[k]))

RuleOverride_longest_keyword(rules, merchant_name) ==
  LET hits == {i \in 1..Len(rules) : KeywordHit(rules[i][2], merchant_name)}
      best(i) == CHOOSE n \in 0..Len(merchant_name) :
                   /\ \E k \in 1..Len(rules[i][2]) :
                        /\ Len(rules[i][2][k]) = n
                        /\ Contains(merchant_name, Upper(rules[i][2][k]))
                   /\ \A k \in 1..Len(rules[i][2]) :
                        Contains(merchant_name, Upper(rules[i][2][k]))
                          => Len(rules[i][2][k]) <= n
  IN  IF hits = {}
      THEN None
      ELSE Some(rules[CHOOSE i \in hits : \A j \in hits :
                        best(j) < best(i) \/ (best(j) = best(i) /\ i <= j)][1])

\* the rule loop: the category of the first rule with a keyword in merchant_name
RuleOverride(rules, merchant_name) ==
  LET hits == {i \in 1..Len(rules) : KeywordHit(rules[i][2], merchant_name)}
  IN  IF hits = {} THEN None ELSE Some(rules[Min(hits)][1])

\* str.replace('"', '')
DropQuotes(s) == SelectSeq(s, LAMBDA c : c # "\"")

CleanAnswer_strip_only(text) == Strip(text)

\* response.text.strip().replace('"', '')
CleanAnswer(text) == DropQuotes(Strip(text))

\* ai is the outcome of GEMINI_MODEL.generate_content: [raises, text].
\* The result is [category, ai_called].
categorize_receipt(data, ai) ==
  LET merchant_name == Upper(ValueOrEmpty(Get(data, "merchant_name", <<None>>)))
      rule == RuleOverride(RULE_BASED_OVERRIDES, merchant_name)
  IN  IF rule # None
      THEN [category |-> rule[1], ai_called |-> FALSE]
      ELSE IF ~GEMINI_MODEL
           THEN [category |-> Uncategorized, ai_called |-> FALSE]
           ELSE IF ai.raises
                THEN [category |-> Uncategorized, ai_called |-> TRUE]
                ELSE IF InList(CleanAnswer(ai.text), VALID_CATEGORIES)
                     THEN [category |-> CleanAnswer(ai.text), ai_called |-> TRUE]
                     ELSE [category |-> Uncategorized, ai_called |-> TRUE]

----------------------------------------------------------------------------
(* calculate_overall_confidence *)

\* the loop over weights.items(): <<total_weighted_score, total_weight_applied>>
RECURSIVE WeightLoop(_, _, _, _)
WeightLoop(data, weights, i, acc) ==
  IF i > Len(weights)
  THEN acc
  ELSE LET field_name == weights[i][1]
           weight     == weights[i][2]
       IN  IF field_name \in DOMAIN data /\ data[field_name][2] # None
           THEN WeightLoop(data, weights, i + 1,
                           <<acc[1] + data[field_name][2][1] * weight, acc[2] + weight>>)
           ELSE WeightLoop(data, weights, i + 1, acc)

Aggregate_all_weights(data, weights) ==
  LET acc == WeightLoop(data, weights, 1, <<0, 0>>)
      all == SumOver(1..Len(weights), [i \in 1..Len(weights) |-> weights[i][2]])
  IN  IF all = 0 THEN 0 ELSE RoundHalfEven(acc[1], all * 100)

\* the score for given weights: confidences are hundredths of a percent, the
\* result is a whole percentage
Aggregate(data, weights) ==
  LET acc == WeightLoop(data, weights, 1, <<0, 0>>)
  IN  IF acc[2] = 0 THEN 0 ELSE RoundHalfEven(acc[1], acc[2] * 100)

calculate_overall_confidence(data) ==
  Aggregate(data, Get(APP_CONFIG, "confidence_weights", <<>>))

----------------------------------------------------------------------------
(* analyze_receipt *)

DigitChars == <<"0", "1", "2", "3", "4", "5", "6", "7", "8", "9">>

\* one decimal digit as a character
Dig(n) == DigitChars[(n % 10) + 1]

\* datetime.date.isoformat() of <<year, month, day>>
isoformat(d) ==
  <<Dig(d[1] \div 1000), Dig(d[1] \div 100), Dig(d[1] \div 10), Dig(d[1]), "-",
    Dig(d[2] \div 10), Dig(d[2]), "-", Dig(d[3] \div 10), Dig(d[3])>>

\* parsed_data as initialised, before any stage has run
InitialRecord ==
  [merchant_name |-> <<None, None>>, transaction_date |-> <<None, None>>,
   total |-> <<None, None>>, tax_amount |-> <<None, None>>, items |-> <<>>,
   gstin |-> <<None, None>>, hsn |-> <<None, None>>, currency |-> "dollar",
   overall_confidence |-> 0, category |-> Uncategorized, status |-> "Needs Review"]

StatusFor_strict(confidence_score, threshold) ==
  IF confidence_score > threshold THEN "Approved" ELSE "Needs Review"

\* "Approved" if confidence_score >= threshold else "Needs Review"
StatusFor(confidence_score, threshold) ==
  IF confidence_score >= threshold THEN "Approved" ELSE "Needs Review"

\* the items loop
ItemsOf(doc) ==
  LET items_field == Get(doc, "Items", None)
  IN  IF items_field # None /\ items_field[1].value \notin {None, Some(<<>>)}
      THEN [i \in 1..Len(items_field[1].value[1]) |->
              LET item == items_field[1].value[1][i]
              IN  [description |-> get_field_value(item.value, "Description", "string"),
                   total_price |-> get_field_value(item.value, "TotalPrice", "amount"),
                   quantity    |-> get_field_value(item.value, "Quantity", "string")]]
      ELSE <<>>

\* (date_val.isoformat(), date_conf) if date_val else (None, None)
DateEntry(date) ==
  IF date[1] # None THEN <<Some(isoformat(date[1][1])), date[2]>> ELSE <<None, None>>

\* the GSTIN that extract_custom_fields finds in the address, if there is one
GstinInAddress(addr_field) ==
  IF addr_field # None /\ addr_field[1].value \notin {None, Some(<<>>)}
  THEN extract_custom_fields(addr_field[1].value[1])[1]
  ELSE None

\* the gstin entry: from the text without a confidence, else from the address
\* with confidence 85.0
GstinEntry(gstin_regex, gstin_in_addr) ==
  IF gstin_regex # None
  THEN <<gstin_regex, None>>
  ELSE IF gstin_in_addr # None
       THEN <<gstin_in_addr, Some(85 * 100)>>
       ELSE <<None, None>>

\* parsed_data after stage 1 and the GSTIN/HSN finalisation
Assembled(doc, regex) ==
  [InitialRecord EXCEPT
     !.merchant_name = get_field_value(doc, "MerchantName", "string"),
     !.transaction_date = DateEntry(get_field_value(doc, "TransactionDate", "string")),
     !.total = get_field_value(doc, "Total", "amount"),
     !.tax_amount = get_field_value(doc, "TotalTax", "amount"),
     !.items = ItemsOf(doc),
     !.gstin = GstinEntry(regex[1], GstinInAddress(Get(doc, "MerchantAddress", None))),
     !.hsn = <<regex[2], None>>]

\* stage 1 and the GSTIN/HSN finalisation, with the address fallback
Extracted(r) == Assembled(r.documents[1], extract_custom_fields(r.content))

\* 1. Determine Currency
WithCurrency(d, doc) == [d EXCEPT !.currency = determine_currency(doc, d.gstin[1])]

\* 2. Calculate Overall Confidence
WithConfidence(d) == [d EXCEPT !.overall_confidence = calculate_overall_confidence(d)]

\* 3. Assign Category and 4. Determine Initial Status, with the components run
WithCategory(d, cat) ==
  [data |-> [d EXCEPT !.category = cat.category,
                      !.status = StatusFor(d.overall_confidence,
                                           Get(APP_CONFIG, "confidence_threshold", 90))],
   calls |-> {"get_field_value", "extract_custom_fields", "determine_currency",
              "calculate_overall_confidence", "categorize_receipt"}
             \cup (IF cat.ai_called THEN {"generate_content"} ELSE {})]

\* stage 2 from the confidence on
Finalized(d, ai) == WithCategory(d, categorize_receipt(d, ai))

\* the body of `if receipts.documents:`
Enrich(r, ai) == Finalized(WithConfidence(WithCurrency(Extracted(r), r.documents[1])), ai)

analyze_receipt_status_always(r, ai) ==
  IF r.documents # <<>>
  THEN Enrich(r, ai)
  ELSE LET cat == categorize_receipt(InitialRecord, ai)
       IN  [data |-> [InitialRecord EXCEPT
                        !.category = cat.category,
                        !.status = StatusFor(0, Get(APP_CONFIG, "confidence_threshold", 90))],
            calls |-> {"categorize_receipt"}
                      \cup (IF cat.ai_called THEN {"generate_content"} ELSE {})]

\* r is poller.result(): [documents, content]; the result is the record
\* returned and the set of components that ran
analyze_receipt(r, ai) ==
  IF r.documents # <<>>
  THEN Enrich(r, ai)
  ELSE [data |-> InitialRecord, calls |-> {}]

----------------------------------------------------------------------------
(* Inputs: OCR results *)

\* "TOTAL 450.00"
TextPlain ==
  <<"T", "O", "T", "A", "L", " ", "4", "5", "0", ".", "0", "0">>

\* "GSTIN: 29ABCDE1234F2Z5"
TextScenario ==
  <<"G", "S", "T", "I", "N", ":", " ", "2", "9", "A", "B", "C", "D", "E",
    "1", "2", "3", "4", "F", "2", "Z", "5">>

\* "INVOICE GSTIN: 29ABCDE1234F2Z5 HSN CODE: 0902"
TextScenarioLong ==
  <<"I", "N", "V", "O", "I", "C", "E", " ", "G", "S", "T", "I", "N", ":",
    " ", "2", "9", "A", "B", "C", "D", "E", "1", "2", "3", "4", "F", "2",
    "Z", "5", " ", "H", "S", "N", " ", "C", "O", "D", "E", ":", " ", "0",
    "9", "0", "2">>

\* "GST No. 07aaacb2894g125"
TextMisread ==
  <<"G", "S", "T", " ", "N", "o", ".", " ", "0", "7", "a", "a", "a", "c",
    "b", "2", "8", "9", "4", "g", "1", "2", "5">>

\* "TAX 33AAACB2894G2Z9 OK"
TextUnlabelled ==
  <<"T", "A", "X", " ", "3", "3", "A", "A", "A", "C", "B", "2", "8", "9",
    "4", "G", "2", "Z", "9", " ", "O", "K">>

\* "JC TRADING"
NameJC ==
  <<"J", "C", " ", "T", "R", "A", "D", "I", "N", "G">>

\* "City Power Co"
NameCityPower ==
  <<"C", "i", "t", "y", " ", "P", "o", "w", "e", "r", " ", "C", "o">>

\* "Uber India"
NameUber ==
  <<"U", "b", "e", "r", " ", "I", "n", "d", "i", "a">>

\* "City Power"
KeywordCityPower ==
  <<"C", "i", "t", "y", " ", "P", "o", "w", "e", "r">>

\* "City"
KeywordCity ==
  <<"C", "i", "t", "y">>

\* "UBER"
KeywordUber ==
  <<"U", "B", "E", "R">>

\* "Travel"
Travel ==
  <<"T", "r", "a", "v", "e", "l">>

\* "AUSTIN TX USA"
AddressUSA ==
  <<"A", "U", "S", "T", "I", "N", " ", "T", "X", " ", "U", "S", "A">>

\* "MG ROAD INDIA"
AddressIndia ==
  <<"M", "G", " ", "R", "O", "A", "D", " ", "I", "N", "D", "I", "A">>

\* "WINDSOR UK"
AddressWindsor ==
  <<"W", "I", "N", "D", "S", "O", "R", " ", "U", "K">>

\* "GSTIN 27AAACB2894G1ZV PUNE"
AddressGstin ==
  <<"G", "S", "T", "I", "N", " ", "2", "7", "A", "A", "A", "C", "B", "2",
    "8", "9", "4", "G", "1", "Z", "V", " ", "P", "U", "N", "E">>

\* "29ABCDE1234F2Z5"
GstinScenario ==
  <<"2", "9", "A", "B", "C", "D", "E", "1", "2", "3", "4", "F", "2", "Z",
    "5">>

\* "29ABCDE1234FZZ5"
GstinSpecExample ==
  <<"2", "9", "A", "B", "C", "D", "E", "1", "2", "3", "4", "F", "Z", "Z",
    "5">>

\* "INR"
CodeINR ==
  <<"I", "N", "R">>

\* "usd"
CodeUsdLower ==
  <<"u", "s", "d">>

\* "JPY"
CodeJPY ==
  <<"J", "P", "Y">>

\* "450.00"
ContentPlain ==
  <<"4", "5", "0", ".", "0", "0">>

\* "inr 4452"
ContentInr ==
  <<"i", "n", "r", " ", "4", "4", "5", "2">>

\* "EUR/INR 10"
ContentEurInr ==
  <<"E", "U", "R", "/", "I", "N", "R", " ", "1", "0">>

\* " ind "
CountryIND ==
  <<" ", "i", "n", "d", " ">>

\* "USA"
CountryUSA ==
  <<"U", "S", "A">>

\* "India"
CountryIndia ==
  <<"I", "n", "d", "i", "a">>

\* "RICE"
DescRice ==
  <<"R", "I", "C", "E">>

\* "PUNE"
AddressPune ==
  <<"P", "U", "N", "E">>

\* the largest number of line items of a document
MaxItems == 1

\* a DocumentField that is present
Field(value, content, confidence) ==
  Some([value |-> value, content |-> content, confidence |-> confidence])

\* confidences as the OCR service reports them, in 1/100000
OcrConfidences == {400, 90000}

MerchantFields ==
  {None, Field(Some(NameCityPower), None, Some(95004))}
    \cup {Field(Some(NameJC), None, Some(c)) : c \in OcrConfidences}

\* absent; an amount with no currency code, the field without a confidence
\* attribute; an amount in INR
TotalFields ==
  {None,
   Field(Some([amount |-> 45, code |-> None]), Some(ContentPlain), None),
   Field(Some([amount |-> 450, code |-> Some(CodeINR)]), Some(ContentPlain), Some(90000))}

DateFields == {None, Field(Some(<<2025, 10, 24>>), None, Some(90000))}

AddressFields ==
  {None} \cup {Field(Some(a), None, Some(90000)) : a \in {AddressUSA, AddressIndia, AddressGstin}}

CountryFields == {None, Field(Some(CountryIND), None, Some(90000))}

\* n line items; an item has a description and a price, no quantity
ItemList(n) ==
  [i \in 1..n |->
     [value |-> [Description |-> Field(Some(DescRice), None, Some(90000)),
                 TotalPrice  |-> Field(Some([amount |-> 10 * i, code |-> None]),
                                       None, Some(90000))]]]

ItemsFields == {Field(Some(ItemList(n)), None, Some(90000)) : n \in 0..MaxItems}

Texts == {TextPlain, TextScenario, TextScenarioLong, TextMisread, TextUnlabelled}

Documents ==
  [MerchantName : MerchantFields, TransactionDate : DateFields, Total : TotalFields,
   TotalTax : {None}, MerchantAddress : AddressFields, CountryRegion : CountryFields,
   Items : ItemsFields]

\* what poller.result() can be
OcrResults ==
  [documents : {<<>>} \cup {<<d>> : d \in Documents}, content : Texts]

\* what GEMINI_MODEL.generate_content can do
AiOutcomes ==
  {[raises |-> TRUE, text |-> <<>>]}
    \cup {[raises |-> FALSE, text |-> t] :
            t \in {<<" ", "\"">> \o FoodCost \o <<"\"", " ">>, Upper(Utilities)}}

\* the outcomes that matter for r: the service is called only when it is
\* configured and the OCR result has a document
AiOutcomesFor(r) ==
  IF GEMINI_MODEL /\ r.documents # <<>>
  THEN AiOutcomes
  ELSE {[raises |-> TRUE, text |-> <<>>]}

\* category_rules.json of the rule-priority example
ExampleRules == << <<Utilities, <<KeywordCityPower>> >>, <<FoodCost, <<KeywordCity>> >> >>

AppConfigs ==
  {DefaultAppConfig,
   [DefaultAppConfig EXCEPT !.confidence_threshold = 0],
   [confidence_weights |-> << <<"total", 40>>, <<"merchant_name", 60>> >>]}

----------------------------------------------------------------------------
(* The /analyze route of app.py around analyze_receipt *)

Init ==
  /\ APP_CONFIG \in AppConfigs
  /\ RULE_BASED_OVERRIDES \in {DefaultRules, ExampleRules}
  /\ VALID_CATEGORIES = DefaultValidCategories
  /\ GEMINI_MODEL \in BOOLEAN
  /\ pc = "idle"
  /\ receipts = None
  /\ parsed_data = None
  /\ calls = {}
  /\ fn_args = None
  /\ fn_ret = None

\* analyze(): one upload is analysed and the record is ready to be returned
analyze ==
  /\ pc = "idle"
  /\ \E r \in OcrResults :
     \E ai \in AiOutcomesFor(r) :
       LET out == analyze_receipt(r, ai)
       IN  /\ receipts' = Some(r)
           /\ parsed_data' = Some(out.data)
           /\ calls' = out.calls
  /\ pc' = "analyzed"
  /\ UNCHANGED <<config_vars, fn_args, fn_ret>>

\* return jsonify(...): nothing is kept between invocations
respond ==
  /\ pc = "analyzed"
  /\ pc' = "idle"
  /\ receipts' = None
  /\ parsed_data' = None
  /\ calls' = {}
  /\ UNCHANGED <<config_vars, fn_args, fn_ret>>

Next == analyze \/ respond

Spec == Init /\ [][Next]_vars

----------------------------------------------------------------------------
(* Properties of the pipeline, checked under Spec *)

Analyzed == pc = "analyzed"

HasDocument == Analyzed /\ receipts[1].documents # <<>>

Threshold == Get(APP_CONFIG, "confidence_threshold", 90)

\* C1 as claimed: in every returned record, with or without a document, status
\* is Approved if and only if overall_confidence >= confidence_threshold, and
\* Needs Review otherwise.
C1_StatusIffThresholdAlways ==
  Analyzed =>
    /\ parsed_data[1].status \in {"Approved", "Needs Review"}
    /\ parsed_data[1].status = "Approved" <=> parsed_data[1].overall_confidence >= Threshold

\* C1 amended: when the OCR result has a document, status is Approved if and
\* only if overall_confidence >= confidence_threshold (equality is Approved) and
\* Needs Review otherwise; when it has no document, status is Needs Review
\* whatever the threshold.
C1_StatusIffThreshold ==
  Analyzed =>
    /\ parsed_data[1].status \in {"Approved", "Needs Review"}
    /\ IF receipts[1].documents # <<>>
       THEN parsed_data[1].status = "Approved"
              <=> parsed_data[1].overall_confidence >= Threshold
       ELSE parsed_data[1].status = "Needs Review"

\* a document whose confidence is exactly the threshold, and is approved
C1_Witness ==
  /\ HasDocument
  /\ parsed_data[1].overall_confidence = Threshold
  /\ parsed_data[1].status = "Approved"

\* the OCR result with every trace of a GSTIN removed from text and address
WithoutGstin(r) ==
  LET doc == r.documents[1]
  IN  [documents |-> <<[doc EXCEPT !.MerchantAddress =
                          IF @ = Field(Some(AddressGstin), None, Some(90000))
                          THEN Field(Some(AddressPune), None, Some(90000))
                          ELSE @]>>,
       content |-> TextPlain]

\* C3: under the built-in default configuration the GSTIN never participates
\* in the overall confidence: an OCR result and the same result without any
\* GSTIN (in the text or in the address) get the same overall_confidence and
\* the same status.
C3_GstinNeverWeighs ==
  (HasDocument /\ APP_CONFIG = DefaultAppConfig) =>
    LET base == analyze_receipt(WithoutGstin(receipts[1]), [raises |-> TRUE, text |-> <<>>]).data
    IN  /\ parsed_data[1].overall_confidence = base.overall_confidence
        /\ parsed_data[1].status = base.status

\* C4: with no documents the record returned has every extracted field
\* absent, no items, the default currency, confidence 0, category
\* Uncategorized and status Needs Review, and no stage of the pipeline ran (no
\* currency resolution, aggregation, categorisation or AI call).
C4_NoDocuments ==
  (Analyzed /\ receipts[1].documents = <<>>) =>
    /\ \A f \in {"merchant_name", "transaction_date", "total", "tax_amount", "gstin", "hsn"} :
         parsed_data[1][f][1] = None
    /\ parsed_data[1].items = <<>>
    /\ parsed_data[1].currency = "dollar"
    /\ parsed_data[1].overall_confidence = 0
    /\ parsed_data[1].category = Uncategorized
    /\ parsed_data[1].status = "Needs Review"
    /\ calls = {}

\* an empty OCR result analysed with the AI configured and a threshold of 0
C4_Witness ==
  /\ Analyzed
  /\ receipts[1].documents = <<>>
  /\ GEMINI_MODEL
  /\ Threshold = 0
  /\ parsed_data[1].status = "Needs Review"

\* the weighted fields that have a usable confidence: named in the weight
\* configuration, present in the document (the GSTIN: found with a confidence)
UsableFields ==
  LET doc == receipts[1].documents[1]
      weights == Get(APP_CONFIG, "confidence_weights", <<>>)
      present(f) ==
        CASE f = "merchant_name" -> doc.MerchantName # None
          [] f = "total" -> doc.Total # None
          [] f = "transaction_date" ->
               doc.TransactionDate # None /\ doc.TransactionDate[1].value # None
          [] f = "gstin" -> parsed_data[1].gstin[2] # None
          [] OTHER -> FALSE
  IN  {i \in 1..Len(weights) : present(weights[i][1])}

\* C5 as claimed: overall_confidence is in [0,100] and is 0 exactly when no
\* weighted field had a usable confidence, an absent weighted field not
\* counting as usable.
C5_ZeroExactlyWhenNothingUsable ==
  HasDocument =>
    /\ parsed_data[1].overall_confidence \in 0..100
    /\ parsed_data[1].overall_confidence = 0 <=> UsableFields = {}

\* C5 amended: overall_confidence is in [0,100], and it is 0 whenever no
\* weighted field had a usable confidence (an absent weighted field not
\* counting as usable); it can be 0 as well when usable confidences are so low
\* that the weighted average rounds to 0.
C5_ConfidenceRange ==
  Analyzed =>
    /\ parsed_data[1].overall_confidence \in 0..100
    /\ (HasDocument /\ UsableFields = {}) => parsed_data[1].overall_confidence = 0

\* a document none of whose weighted fields is present, scored 0
C5_Witness ==
  /\ HasDocument
  /\ UsableFields = {}
  /\ parsed_data[1].overall_confidence = 0

\* the end-to-end scenario: the text contains "GSTIN: 29ABCDE1234F2Z5" and
\* Total carries the currency code INR
Scenario ==
  /\ HasDocument
  /\ Contains(receipts[1].content, TextScenario)
  /\ receipts[1].documents[1].Total # None
  /\ receipts[1].documents[1].Total[1].value[1].code = Some(CodeINR)

\* C6 as claimed: in the end-to-end scenario the GSTIN of the record is
\* "29ABCDE1234FZZ5" and the currency is the Indian symbol.
C6_ScenarioGstinCorrected ==
  Scenario =>
    /\ parsed_data[1].gstin[1] = Some(GstinSpecExample)
    /\ parsed_data[1].currency = "rupee"

\* C6 amended: in the end-to-end scenario the GSTIN of the record is
\* "29ABCDE1234F2Z5", unchanged (its character at index 13 is already Z, the 2
\* is at index 12), and the currency is the Indian symbol.
C6_ScenarioGstin ==
  Scenario =>
    /\ parsed_data[1].gstin[1] = Some(GstinScenario)
    /\ parsed_data[1].currency = "rupee"

\* the scenario, analysed: a GSTIN was found in the text and no confidence given
C6_Witness ==
  /\ Scenario
  /\ parsed_data[1].gstin[1] # None
  /\ parsed_data[1].gstin[2] = None

----------------------------------------------------------------------------
(* sanitize_gstin and extract_custom_fields on their own: SpecSanitize *)

\* "07aaacb2894g125"
GstinMisread ==
  <<"0", "7", "a", "a", "a", "c", "b", "2", "8", "9", "4", "g", "1", "2", "5">>

\* "222222222222222"
GstinAllTwos ==
  <<"2", "2", "2", "2", "2", "2", "2", "2", "2", "2", "2", "2", "2", "2", "2">>

\* the largest number of non-alphanumeric characters added to a candidate
MaxJunk == 1

JunkChars == {"-", " ", "_"}

\* s with character c inserted after position p
InsertAt(s, p, c) == SubSeq(s, 1, p) \o <<c>> \o SubSeq(s, p + 1, Len(s))

\* 15, 14 and 16 alphanumeric characters
BaseCandidates ==
  {GstinScenario, GstinMisread, GstinAllTwos,
   SubSeq(GstinMisread, 1, 14), GstinScenario \o <<"2">>}

RECURSIVE Junked(_)
\* the base candidates with at most n characters of junk inserted
Junked(n) ==
  IF n = 0
  THEN BaseCandidates
  ELSE LET prev == Junked(n - 1)
       IN  prev \cup UNION {{InsertAt(b, p, c) : p \in 0..Len(b), c \in JunkChars} : b \in prev}

Candidates == {None, Some(<<>>), Some(<<"-", "-">>)} \cup {Some(c) : c \in Junked(MaxJunk)}

ExtractTexts == Texts \cup {AddressUSA, AddressGstin, AddressPune}

InitSanitize ==
  /\ APP_CONFIG = DefaultAppConfig
  /\ RULE_BASED_OVERRIDES = DefaultRules
  /\ VALID_CATEGORIES = DefaultValidCategories
  /\ GEMINI_MODEL = FALSE
  /\ pc = "call"
  /\ receipts = None
  /\ parsed_data = None
  /\ calls = {}
  /\ fn_args \in [fn : {"sanitize_gstin"}, arg : Candidates]
                   \cup [fn : {"extract_custom_fields"}, arg : ExtractTexts]
  /\ fn_ret = None

call_sanitize_gstin ==
  /\ pc = "call"
  /\ fn_args.fn = "sanitize_gstin"
  /\ fn_ret' = sanitize_gstin(fn_args.arg)
  /\ pc' = "returned"
  /\ UNCHANGED <<config_vars, receipts, parsed_data, calls, fn_args>>

call_extract_custom_fields ==
  /\ pc = "call"
  /\ fn_args.fn = "extract_custom_fields"
  /\ fn_ret' = extract_custom_fields(fn_args.arg)
  /\ pc' = "returned"
  /\ UNCHANGED <<config_vars, receipts, parsed_data, calls, fn_args>>

NextSanitize == call_sanitize_gstin \/ call_extract_custom_fields

SpecSanitize == InitSanitize /\ [][NextSanitize]_vars

\* the candidate with its non-alphanumeric characters stripped, then upper-cased
Stripped(candidate) ==
  IF candidate = None THEN <<>> ELSE Upper(SelectSeq(candidate[1], IsAlnum))

\* exactly 15 upper-case alphanumeric characters
WellFormedGstin(g) == Len(g) = 15 /\ \A i \in 1..15 : g[i] \in UpperSet \cup Digits

\* C7: if stripping and upper-casing the candidate leaves exactly 15
\* characters, sanitize_gstin returns them with a 2 at index 13 replaced by Z
\* and every other position unchanged; otherwise it returns None.  So a GSTIN
\* that extract_custom_fields puts in a record is 15 upper-case alphanumerics.
C7_Sanitize ==
  /\ (pc = "returned" /\ fn_args.fn = "sanitize_gstin") =>
       LET s == Stripped(fn_args.arg)
       IN  IF Len(s) = 15
           THEN /\ fn_ret # None
                /\ WellFormedGstin(fn_ret[1])
                /\ \A i \in 1..15 :
                     fn_ret[1][i] = IF i = 14 /\ s[i] = "2" THEN "Z" ELSE s[i]
           ELSE fn_ret = None
  /\ (pc = "returned" /\ fn_args.fn = "extract_custom_fields") =>
       (fn_ret[1] # None => WellFormedGstin(fn_ret[1][1]))

\* a candidate with junk and lower case and a 2 at index 13, sanitised to a Z
C7_Witness ==
  /\ pc = "returned"
  /\ fn_args.fn = "sanitize_gstin"
  /\ fn_args.arg # None
  /\ Len(fn_args.arg[1]) > 15
  /\ Len(Stripped(fn_args.arg)) = 15
  /\ Stripped(fn_args.arg)[14] = "2"
  /\ fn_ret # None
  /\ fn_ret[1][14] = "Z"

----------------------------------------------------------------------------
(* determine_currency on its own: SpecCurrency *)

\* "ABCDE1234F2Z5XY": 15 characters that do not start with two digits
GstinNoState ==
  <<"A", "B", "C", "D", "E", "1", "2", "3", "4", "F", "2", "Z", "5", "X", "Y">>

\* Total: absent; recognised text without a value; codes INR, usd, JPY; no
\* code, with and without a code in the text
CurrencyTotals ==
  {None,
   Field(None, Some(ContentInr), Some(90000)),
   Field(Some([amount |-> 450, code |-> Some(CodeINR)]), Some(ContentPlain), Some(90000)),
   Field(Some([amount |-> 450, code |-> Some(CodeUsdLower)]), Some(ContentInr), Some(90000)),
   Field(Some([amount |-> 450, code |-> Some(CodeJPY)]), Some(ContentPlain), Some(90000)),
   Field(Some([amount |-> 450, code |-> Some(CodeJPY)]), Some(ContentEurInr), Some(90000)),
   Field(Some([amount |-> 450, code |-> None]), Some(ContentInr), Some(90000)),
   Field(Some([amount |-> 450, code |-> None]), None, Some(90000))}

CurrencyCountries ==
  {None, Field(None, None, Some(90000))}
    \cup {Field(Some(c), None, Some(90000)) : c \in {CountryIND, CountryUSA, CountryIndia}}

CurrencyAddresses ==
  {None} \cup {Field(Some(a), None, Some(90000)) :
                 a \in {AddressUSA, AddressIndia, AddressWindsor, AddressPune}}

CurrencyGstins == {None, Some(GstinScenario), Some(GstinNoState)}

CurrencyDocuments ==
  [MerchantName : {None}, TransactionDate : {None}, Total : CurrencyTotals,
   TotalTax : {None}, MerchantAddress : CurrencyAddresses,
   CountryRegion : CurrencyCountries, Items : {None}]

InitCurrency ==
  /\ APP_CONFIG = DefaultAppConfig
  /\ RULE_BASED_OVERRIDES = DefaultRules
  /\ VALID_CATEGORIES = DefaultValidCategories
  /\ GEMINI_MODEL = FALSE
  /\ pc = "call"
  /\ receipts = None
  /\ parsed_data = None
  /\ calls = {}
  /\ fn_args \in [fn : {"determine_currency"}, doc : CurrencyDocuments, gstin : CurrencyGstins]
  /\ fn_ret = None

call_determine_currency ==
  /\ pc = "call"
  /\ fn_args.fn = "determine_currency"
  /\ fn_ret' = determine_currency(fn_args.doc, fn_args.gstin)
  /\ pc' = "returned"
  /\ UNCHANGED <<config_vars, receipts, parsed_data, calls, fn_args>>

NextCurrency == call_determine_currency

SpecCurrency == InitCurrency /\ [][NextCurrency]_vars

\* the text of an optional string field of the document, "" when there is none
TextOf(field) ==
  IF field = None \/ field[1].value = None THEN <<>> ELSE field[1].value[1]

\* the six rules of the claim for a call of determine_currency, in order, as
\* <<succeeds, symbol>>; with_value says whether rules 1 and 2 need Total to
\* have a value
CurrencyRules(a, with_value) ==
  LET total   == a.doc.Total
      code    == IF total # None /\ total[1].value # None /\ total[1].value[1].code # None
                 THEN Upper(total[1].value[1].code[1])
                 ELSE <<>>
      content == IF total # None /\ total[1].content # None
                    /\ (with_value => total[1].value # None)
                 THEN Upper(total[1].content[1])
                 ELSE <<>>
      inText  == {i \in 1..Len(CURRENCY_MAP) : Contains(content, CURRENCY_MAP[i][1])}
      country == Strip(Upper(TextOf(a.doc.CountryRegion)))
      address == Upper(TextOf(a.doc.MerchantAddress))
  IN  << <<InMap(CURRENCY_MAP, code),
           IF InMap(CURRENCY_MAP, code) THEN Lookup(CURRENCY_MAP, code) ELSE "">>,
         <<inText # {}, IF inText # {} THEN CURRENCY_MAP[Min(inText)][2] ELSE "">>,
         <<InMap(COUNTRY_MAP, country),
           IF InMap(COUNTRY_MAP, country) THEN Lookup(COUNTRY_MAP, country) ELSE "">>,
         <<a.gstin # None /\ Len(a.gstin[1]) = 15
             /\ a.gstin[1][1] \in Digits /\ a.gstin[1][2] \in Digits, "rupee">>,
         <<Contains(address, <<"I", "N", "D", "I", "A">>)
             \/ Contains(address, <<"I", "N", "D">>), "rupee">>,
         <<TRUE, "dollar">> >>

\* the symbol of the first rule that succeeds
FirstRule(rules) == rules[Min({i \in 1..Len(rules) : rules[i][1]})][2]

\* an explicit INR code on Total and an address that contains USA
InrTotalUsaAddress(a) ==
  /\ a.doc.Total # None
  /\ a.doc.Total[1].value # None
  /\ a.doc.Total[1].value[1].code = Some(CodeINR)
  /\ Contains(TextOf(a.doc.MerchantAddress), <<"U", "S", "A">>)

\* C8 as claimed: determine_currency returns the symbol of the first rule that
\* succeeds among (1) code on Total, (2) a known code in Total's raw content,
\* (3) CountryRegion, (4) GSTIN shape, (5) INDIA or IND in the address, (6) the
\* default; never absent.
C8_CurrencyPriorityAnyContent ==
  (pc = "returned" /\ fn_args.fn = "determine_currency") =>
    /\ fn_ret = FirstRule(CurrencyRules(fn_args, FALSE))
    /\ InrTotalUsaAddress(fn_args) => fn_ret = "rupee"
    /\ fn_ret \in {"rupee", "dollar", "euro", "pound", "dirham"}

\* C8 amended: the same order, where rules (1) and (2) apply only when the
\* Total field has a value (a Total with recognised text but no parsed value is
\* skipped by both) and rule (2) takes the first code in the order of the code
\* table; an explicit INR code with an address containing USA gives the
\* Indian symbol, and the result is never absent.
C8_CurrencyPriority ==
  (pc = "returned" /\ fn_args.fn = "determine_currency") =>
    /\ fn_ret = FirstRule(CurrencyRules(fn_args, TRUE))
    /\ InrTotalUsaAddress(fn_args) => fn_ret = "rupee"
    /\ fn_ret \in {"rupee", "dollar", "euro", "pound", "dirham"}

\* an explicit INR code on Total with an address containing USA, resolved
C8_Witness ==
  /\ pc = "returned"
  /\ fn_args.fn = "determine_currency"
  /\ InrTotalUsaAddress(fn_args)
  /\ fn_ret = "rupee"

----------------------------------------------------------------------------
(* categorize_receipt on its own: SpecCategorize *)

\* the rule-priority example with its two rules in the other order
ReversedRules == << <<FoodCost, <<KeywordCity>> >>, <<Utilities, <<KeywordCityPower>> >> >>

\* a rule file that names a category missing from the valid-category list
TravelRules == << <<Travel, <<KeywordUber>> >> >>

\* two keywords for one category, and a keyword that is the empty string
ManyKeywordRules ==
  << <<Maintenance, <<KeywordUber, Upper(KeywordCity)>> >>, <<Utilities, << <<>> >> >> >>

RuleFiles == {DefaultRules, ExampleRules, ReversedRules, TravelRules, ManyKeywordRules}

ValidCategoryFiles == {DefaultValidCategories, <<Utilities, Uncategorized>>}

\* the merchant_name entry of the record: MerchantName absent, without a
\* value, or with a name
CategorizeMerchants ==
  {<<None, Some(0)>>, <<None, Some(9000)>>}
    \cup {<<Some(n), Some(9000)>> : n \in {NameCityPower, NameJC, NameUber}}

CategorizeAnswers ==
  {[raises |-> TRUE, text |-> <<>>]}
    \cup {[raises |-> FALSE, text |-> t] :
            t \in {Utilities,
                   <<" ", "\"">> \o FoodCost \o <<"\"", " ">>,
                   <<"\"", " ">> \o FoodCost \o <<" ", "\"">>,
                   <<"'">> \o FoodCost \o <<"'">>,
                   <<"U", "t", "\"">> \o SubSeq(Utilities, 3, Len(Utilities)),
                   FoodCost \o <<"\n">>,
                   Upper(Utilities),
                   Travel,
                   <<>>}}

InitCategorize ==
  /\ APP_CONFIG = DefaultAppConfig
  /\ RULE_BASED_OVERRIDES \in RuleFiles
  /\ VALID_CATEGORIES \in ValidCategoryFiles
  /\ GEMINI_MODEL \in BOOLEAN
  /\ pc = "call"
  /\ receipts = None
  /\ parsed_data = None
  /\ calls = {}
  /\ fn_args \in [fn : {"categorize_receipt"},
                  data : {[InitialRecord EXCEPT !.merchant_name = m] : m \in CategorizeMerchants}]
  /\ fn_ret = None

call_categorize_receipt ==
  /\ pc = "call"
  /\ fn_args.fn = "categorize_receipt"
  /\ \E ai \in CategorizeAnswers :
       fn_ret' = [categorize_receipt(fn_args.data, ai) EXCEPT
                    !.ai_called = IF @ THEN Some(ai) ELSE None]
  /\ pc' = "returned"
  /\ UNCHANGED <<config_vars, receipts, parsed_data, calls, fn_args>>

NextCategorize == call_categorize_receipt

SpecCategorize == InitCategorize /\ [][NextCategorize]_vars

Categorized == pc = "returned" /\ fn_args.fn = "categorize_receipt"

\* C2: the category returned by categorize_receipt is a member of the
\* configured valid-category list on every path, for every rule file and every
\* valid-category list.
C2_CategoryIsValid ==
  Categorized => InList(fn_ret.category, VALID_CATEGORIES)

\* keyword is a case-insensitive substring of name
OccursIgnoringCase(keyword, name) ==
  \E i \in 0..(Len(name) - Len(keyword)) :
    \A j \in 1..Len(keyword) : UpperChar(name[i + j]) = UpperChar(keyword[j])

\* the rules that have a keyword occurring in the merchant name of the call
MatchingRules ==
  LET name == IF fn_args.data.merchant_name[1] = None
              THEN <<>>
              ELSE fn_args.data.merchant_name[1][1]
  IN  {i \in 1..Len(RULE_BASED_OVERRIDES) :
         \E k \in 1..Len(RULE_BASED_OVERRIDES[i][2]) :
           OccursIgnoringCase(RULE_BASED_OVERRIDES[i][2][k], name)}

\* C9: when some configured keyword is a case-insensitive substring of the
\* merchant name, categorize_receipt returns the first category, in configured
\* order, that has such a keyword, and does not call the AI service; with the
\* rules {Utilities: [City Power], Food Cost: [City]} and the merchant
\* "City Power Co" the result is Utilities.
C9_FirstRuleWins ==
  Categorized =>
    /\ MatchingRules # {} =>
         /\ fn_ret.category = RULE_BASED_OVERRIDES[Min(MatchingRules)][1]
         /\ fn_ret.ai_called = None
    /\ (RULE_BASED_OVERRIDES = ExampleRules
          /\ fn_args.data.merchant_name[1] = Some(NameCityPower))
         => fn_ret.category = Utilities

\* two rules match and the first one, not the one with the longer keyword, won
C9_Witness ==
  /\ Categorized
  /\ GEMINI_MODEL
  /\ Cardinality(MatchingRules) = 2
  /\ RULE_BASED_OVERRIDES = ReversedRules
  /\ fn_ret.category = FoodCost

\* the characters an answer can be quoted with
QuoteChars == {"\"", "'"}

\* text without its leading and trailing characters of the set chars
TrimChars(text, chars) ==
  LET keep == {i \in 1..Len(text) : text[i] \notin chars}
  IN  IF keep = {}
      THEN <<>>
      ELSE SubSeq(text, CHOOSE i \in keep : \A j \in keep : i <= j,
                        CHOOSE i \in keep : \A j \in keep : j <= i)

\* the answer with whitespace and quote characters stripped from both ends
AnswerTrimmed(text) == TrimChars(text, Whitespace \cup QuoteChars)

\* text without its double quotes, wherever they are
RECURSIVE WithoutDoubleQuotes(_)
WithoutDoubleQuotes(text) ==
  IF text = <<>>
  THEN <<>>
  ELSE (IF Head(text) = "\"" THEN <<>> ELSE <<Head(text)>>)
         \o WithoutDoubleQuotes(Tail(text))

\* the answer with its leading and trailing whitespace removed first and all
\* of its double quotes removed after that
AnswerStrippedThenUnquoted(text) == WithoutDoubleQuotes(TrimChars(text, Whitespace))

\* what the call that is recorded in fn_ret got from the AI service
AiOutcome == fn_ret.ai_called[1]

\* no rule matched: the call returned a category; it is Uncategorized when the
\* service is not configured (and then not called), when its call raised, or
\* when the answer cleaned by Clean is not, as it is written, in
\* VALID_CATEGORIES; otherwise it is the cleaned answer
AiFallback(Clean(_)) ==
  (Categorized /\ MatchingRules = {}) =>
    /\ fn_ret.category \in Seq(STRING)
    /\ ~GEMINI_MODEL => (fn_ret.category = Uncategorized /\ fn_ret.ai_called = None)
    /\ GEMINI_MODEL =>
         /\ fn_ret.ai_called # None
         /\ fn_ret.category =
              IF AiOutcome.raises
              THEN Uncategorized
              ELSE IF \E i \in 1..Len(VALID_CATEGORIES) :
                        VALID_CATEGORIES[i] = Clean(AiOutcome.text)
                   THEN Clean(AiOutcome.text)
                   ELSE Uncategorized

\* C11 as stated: when no rule override matches, categorize_receipt returns
\* without an error; the result is Uncategorized if the AI service is not
\* configured, if its call raises, or if its answer with whitespace and quote
\* characters stripped is not an exact, case-sensitive member of the
\* valid-category list, and is the AI's answer otherwise.
C11_AiFallbackTrimmed == AiFallback(AnswerTrimmed)

\* C11: when no rule override matches, categorize_receipt returns without an
\* error; the result is Uncategorized if the AI service is not configured, if
\* its call raises, or if its answer, with leading and trailing whitespace
\* removed and then every double quote removed, is not an exact,
\* case-sensitive member of the valid-category list, and is that cleaned
\* answer otherwise.
C11_AiFallback == AiFallback(AnswerStrippedThenUnquoted)

\* no rule matched and the service answered a valid category wrapped in
\* blanks and double quotes, which was accepted once cleaned
C11_Witness ==
  /\ Categorized
  /\ MatchingRules = {}
  /\ GEMINI_MODEL
  /\ fn_ret.ai_called # None
  /\ ~AiOutcome.raises
  /\ AiOutcome.text = <<" ", "\"">> \o FoodCost \o <<"\"", " ">>
  /\ fn_ret.category = FoodCost

----------------------------------------------------------------------------
(* calculate_overall_confidence on its own: SpecAggregate *)

WeightFiles ==
  {DefaultAppConfig.confidence_weights,
   << <<"total", 40>>, <<"merchant_name", 60>> >>,
   << <<"vendor", 30>>, <<"tax_amount", 0>>, <<"total", 70>> >>,
   << <<"merchant_name", 1>>, <<"total", 1>>, <<"transaction_date", 2>> >>,
   <<>>}

\* confidences of the record, in hundredths of a percent; None: no confidence
AggregateRecords ==
  {[InitialRecord EXCEPT !.total = <<None, t>>, !.merchant_name = <<None, m>>,
                         !.transaction_date = <<None, d>>, !.gstin = <<None, g>>] :
     t \in {None, Some(0), Some(8000), Some(9850)},
     m \in {None, Some(10000), Some(9500)},
     d \in {None, Some(9000)},
     g \in {None, Some(8500)}}

InitAggregate ==
  /\ APP_CONFIG \in {[confidence_threshold |-> 90, confidence_weights |-> w] : w \in WeightFiles}
                      \cup {[confidence_threshold |-> 90]}
  /\ RULE_BASED_OVERRIDES = DefaultRules
  /\ VALID_CATEGORIES = DefaultValidCategories
  /\ GEMINI_MODEL = FALSE
  /\ pc = "call"
  /\ receipts = None
  /\ parsed_data = None
  /\ calls = {}
  /\ fn_args \in [fn : {"calculate_overall_confidence"}, data : AggregateRecords]
  /\ fn_ret = None

call_calculate_overall_confidence ==
  /\ pc = "call"
  /\ fn_args.fn = "calculate_overall_confidence"
  /\ fn_ret' = calculate_overall_confidence(fn_args.data)
  /\ pc' = "returned"
  /\ UNCHANGED <<config_vars, receipts, parsed_data, calls, fn_args>>

NextAggregate == call_calculate_overall_confidence

SpecAggregate == InitAggregate /\ [][NextAggregate]_vars

\* the entries of weights whose field is in the record with a confidence
AppliedWeights(data, weights) ==
  {i \in 1..Len(weights) : weights[i][1] \in DOMAIN data /\ data[weights[i][1]][2] # None}

\* n is the integer nearest to num / den, for the confidences of data under weights
NearestToWeightedMean(n, data, weights) ==
  LET applied == AppliedWeights(data, weights)
      num == SumOver(applied, [i \in applied |-> data[weights[i][1]][2][1] * weights[i][2]])
      den == 100 * SumOver(applied, [i \in applied |-> weights[i][2]])
  IN  IF den = 0
      THEN n = 0
      ELSE 2 * n * den - den <= 2 * num /\ 2 * num <= 2 * n * den + den

RecordFieldNames ==
  {"total", "merchant_name", "transaction_date", "gstin", "tax_amount", "hsn", "vendor"}

\* C10: calculate_overall_confidence returns sum(confidence * weight) /
\* sum(weight) over exactly the configured fields that the record has with a
\* confidence, rounded to the nearest integer; adding a zero-weight field to
\* the weights changes nothing; weights {total: 0.4, merchant_name: 0.6} with
\* confidences {total: 80, merchant_name: 100} give 92.
C10_WeightedMean ==
  (pc = "returned" /\ fn_args.fn = "calculate_overall_confidence") =>
    LET weights == Get(APP_CONFIG, "confidence_weights", <<>>)
    IN  /\ NearestToWeightedMean(fn_ret, fn_args.data, weights)
        /\ \A f \in RecordFieldNames :
             (\A i \in 1..Len(weights) : weights[i][1] # f) =>
               /\ NearestToWeightedMean(fn_ret, fn_args.data, Append(weights, <<f, 0>>))
               /\ fn_ret = Aggregate(fn_args.data, Append(weights, <<f, 0>>))
               /\ fn_ret = Aggregate(fn_args.data, <<<<f, 0>>>> \o weights)
        /\ (/\ weights = << <<"total", 40>>, <<"merchant_name", 60>> >>
            /\ fn_args.data.total[2] = Some(8000)
            /\ fn_args.data.merchant_name[2] = Some(10000))
             => fn_ret = 92

\* the example of the claim, scored 92
C10_Witness ==
  /\ pc = "returned"
  /\ fn_args.fn = "calculate_overall_confidence"
  /\ Get(APP_CONFIG, "confidence_weights", <<>>) = << <<"total", 40>>, <<"merchant_name", 60>> >>
  /\ fn_args.data.total[2] = Some(8000)
  /\ fn_args.data.merchant_name[2] = Some(10000)
  /\ fn_ret = 92

====
